---- MODULE Spec2Model ----
(***************************************************************************)
(* Model of BlockedModsDialog (launcher/ui/dialogs/BlockedModsDialog.cpp): *)
(* the list of blocked mods, the scan of the watched directories, the pool *)
(* of hash tasks and the match / revalidate state machine.                 *)
(*                                                                         *)
(* Strings that the code compares case-insensitively (mod names, file      *)
(* names, hashes) are sequences of character codes.  A path is a sequence  *)
(* of components: <<>> is the empty path, <<d>> a directory, <<d, n>> the  *)
(* file named n in directory d.                                            *)
(***************************************************************************)
EXTENDS Naturals, Integers, Sequences, FiniteSets, Bags, TLC

(* ------------------------------ bounds -------------------------------- *)
\* longest list of blocked mods handed to the dialog
MaxMods == 2
\* number of inputs after construction: dropped urls, folder choices and
\* changes of the file system
MaxInputs == 1

(* mutant: the constructor hands the pool a limit one higher *)
KOneMore == 10 + 1

(* Concurrency limit handed to ConcurrentTask by the constructor. *)
K == 10

(* ------------------------------ strings ------------------------------- *)
\* "Fo", "fo", "Gx"
NameFo == <<70, 111>>
Namefo == <<102, 111>>
NameGx == <<71, 120>>
\* "a1", "A1", "a2"
Hash_a1 == <<97, 49>>
Hash_A1 == <<65, 49>>
Hash_a2 == <<97, 50>>

EmptyString == <<>>
EmptyPath == <<>>

ModNames == {NameFo, NameGx}
ModHashes == {Hash_A1, Hash_a2}
FileNames == {Namefo}
\* digests as the hasher prints them (lower-case hex)
Digests == {Hash_a1, Hash_a2}

DownloadsFolder == "downloads"
ModsFolder == "mods"
OtherFolder == "other"
Dirs == {DownloadsFolder, ModsFolder, OtherFolder}

\* the central mods folder stays empty: files live in the other two
FilePaths == {<<d, n>> : d \in {DownloadsFolder, OtherFolder}, n \in FileNames}
DirPaths == {<<d>> : d \in Dirs}

(* a node of the file system: nothing, a directory, or a regular file with
   the digest its content hashes to *)
Absent == [kind |-> "absent", digest |-> <<>>]
IsDir == [kind |-> "dir", digest |-> <<>>]
File(h) == [kind |-> "file", digest |-> h]

(* the result of a hash task *)
Failed == [ok |-> FALSE, hash |-> <<>>]
Hashed(h) == [ok |-> TRUE, hash |-> h]

(* QChar case folding, ASCII range *)
foldCase(c) == IF c \in 65..90 THEN c + 32 ELSE c

(* QString::compare(other, Qt::CaseInsensitive): <0, 0 or >0 *)
RECURSIVE compareCI(_, _)
compareCI(s, t) ==
    IF s = <<>> /\ t = <<>> THEN 0
    ELSE IF s = <<>> THEN -1
    ELSE IF t = <<>> THEN 1
    ELSE LET d == foldCase(Head(s)) - foldCase(Head(t))
         IN IF d # 0 THEN d ELSE compareCI(Tail(s), Tail(t))

(* QFileInfo(path).fileName(): the last component of a file path *)
fileName(path) == IF Len(path) >= 2 THEN path[Len(path)] ELSE EmptyString

(* ------------------------------- state -------------------------------- *)
VARIABLES
    mods,       \* QList<BlockedMod>: name, hash, matched, localPath
    fs,         \* the file system: FilePaths -> Absent, IsDir or a digest
    watched,    \* watcher.directories()
    pending,    \* directoryChanged signals emitted and not yet handled
    queue,      \* hashing_task: paths of the hash tasks not yet started
    doing,      \* hashing_task: bag of started tasks [path, res]
    running,    \* hashing_task has been started and has not finished
    pc,         \* position inside the directoryChanged handler
    hashed,     \* history: <<path, hash>> of every succeeded hash task
    lastOp,     \* history: the operation that produced this state
    tally,      \* history: hash tasks submitted, started and completed so far
    rescan,     \* history: <<mods>> as they were when a second scan of an
                \* unchanged, fully processed directory began; else <<>>
    inputs      \* number of user and file-system inputs so far

vars == <<mods, fs, watched, pending, queue, doing, running, pc, hashed, lastOp, tally, rescan, inputs>>

BlockedMod(n, h) == [name |-> n, hash |-> h, matched |-> FALSE, localPath |-> EmptyPath]

ModEntries == {BlockedMod(n, h) : n \in ModNames, h \in ModHashes}

ModLists == UNION {[1..k -> ModEntries] : k \in 0..MaxMods}

Idle == <<>>

Op(name, path, hash, updated) ==
    [op |-> name, path |-> path, hash |-> hash, updated |-> updated, urls |-> <<>>]

DropOp(urls) ==
    [op |-> "drop", path |-> EmptyPath, hash |-> EmptyString, updated |-> FALSE, urls |-> urls]

(* ----------------------------- file system ---------------------------- *)
isFile(f, path) == path \in FilePaths /\ f[path].kind = "file"
exists(f, path) == path \in DirPaths \/ (path \in FilePaths /\ f[path] # Absent)

(* QDirIterator(path, Files | Hidden): the regular files directly in path *)
dirFiles(f, d) == {p \in FilePaths : p[1] = d /\ isFile(f, p)}

Orders(S) == {s \in [1..Cardinality(S) -> S] : \A i, j \in 1..Cardinality(S) : s[i] = s[j] => i = j}

(* --------------------------- pure operations -------------------------- *)
(* BlockedModsDialog::checkValidPath *)
RECURSIVE checkValidPathFrom(_, _, _)
checkValidPathFrom(ms, i, filename) ==
    IF i > Len(ms) THEN FALSE
    ELSE IF compareCI(ms[i].name, filename) = 0 THEN TRUE
    ELSE checkValidPathFrom(ms, i + 1, filename)

(* mutant: the names are compared exactly, case included *)
checkValidPathCaseSensitive(ms, path) == \E i \in 1..Len(ms) : ms[i].name = fileName(path)

checkValidPath(ms, path) == checkValidPathFrom(ms, 1, fileName(path))

(* BlockedModsDialog::checkMatchHash: the loop over mods *)
RECURSIVE checkMatchHashFrom(_, _, _, _)
checkMatchHashFrom(ms, i, hash, path) ==
    IF i > Len(ms) THEN [mods |-> ms, match |-> FALSE]
    ELSE IF ms[i].matched THEN checkMatchHashFrom(ms, i + 1, hash, path)
    ELSE IF compareCI(ms[i].hash, hash) = 0
         THEN [mods |-> [ms EXCEPT ![i].matched = TRUE, ![i].localPath = path],
               match |-> TRUE]
    ELSE checkMatchHashFrom(ms, i + 1, hash, path)

(* mutant: the hashes are compared exactly, case included *)
checkMatchHashCaseSensitive(ms, hash, path) ==
    LET S == {i \in 1..Len(ms) : ~ms[i].matched /\ ms[i].hash = hash}
    IN IF S = {} THEN [mods |-> ms, match |-> FALSE]
       ELSE LET i == CHOOSE k \in S : \A j \in S : k <= j
            IN [mods |-> [ms EXCEPT ![i].matched = TRUE, ![i].localPath = path],
                match |-> TRUE]

(* mutant: the entry is found by the name of the file, not by its hash *)
checkMatchHashByName(ms, hash, path) ==
    LET S == {i \in 1..Len(ms) : ~ms[i].matched /\ compareCI(ms[i].name, fileName(path)) = 0}
    IN IF S = {} THEN [mods |-> ms, match |-> FALSE]
       ELSE LET i == CHOOSE k \in S : \A j \in S : k <= j
            IN [mods |-> [ms EXCEPT ![i].matched = TRUE, ![i].localPath = path],
                match |-> TRUE]

(* mutant: entries already matched are not skipped *)
checkMatchHashOverwrite(ms, hash, path) ==
    LET S == {i \in 1..Len(ms) : compareCI(ms[i].hash, hash) = 0}
    IN IF S = {} THEN [mods |-> ms, match |-> FALSE]
       ELSE LET i == CHOOSE k \in S : \A j \in S : k <= j
            IN [mods |-> [ms EXCEPT ![i].matched = TRUE, ![i].localPath = path],
                match |-> TRUE]

checkMatchHash(ms, hash, path) == checkMatchHashFrom(ms, 1, hash, path)

(* BlockedModsDialog::validateMatchedMods: the loop over mods *)
RECURSIVE validateMatchedModsFrom(_, _, _, _)
validateMatchedModsFrom(ms, i, f, changed) ==
    IF i > Len(ms) THEN [mods |-> ms, changed |-> changed]
    ELSE IF ms[i].matched /\ (~exists(f, ms[i].localPath) \/ ~isFile(f, ms[i].localPath))
         THEN validateMatchedModsFrom(
                  [ms EXCEPT ![i].localPath = EmptyPath, ![i].matched = FALSE],
                  i + 1, f, TRUE)
    ELSE validateMatchedModsFrom(ms, i + 1, f, changed)

(* mutant: the flag is reset and the path is kept *)
validateMatchedModsKeepPath(ms, f) ==
    [mods |-> [i \in 1..Len(ms) |->
                  IF ms[i].matched /\ ~isFile(f, ms[i].localPath)
                  THEN [ms[i] EXCEPT !.matched = FALSE] ELSE ms[i]],
     changed |-> \E i \in 1..Len(ms) : ms[i].matched /\ ~isFile(f, ms[i].localPath)]

(* mutant: only the existence of the path is checked, not that it is a file *)
validateMatchedModsExistsOnly(ms, f) ==
    [mods |-> [i \in 1..Len(ms) |->
                  IF ms[i].matched /\ ~exists(f, ms[i].localPath)
                  THEN [ms[i] EXCEPT !.matched = FALSE, !.localPath = EmptyPath] ELSE ms[i]],
     changed |-> \E i \in 1..Len(ms) : ms[i].matched /\ ~exists(f, ms[i].localPath)]

(* mutant: the entries are reset and no change is reported *)
validateMatchedModsSilent(ms, f) ==
    [mods |-> validateMatchedModsFrom(ms, 1, f, FALSE).mods, changed |-> FALSE]

validateMatchedMods(ms, f) == validateMatchedModsFrom(ms, 1, f, FALSE)

(* BlockedModsDialog::allModsMatched: std::all_of over mods *)
RECURSIVE allOfMatchedFrom(_, _)
allOfMatchedFrom(ms, i) ==
    IF i > Len(ms) THEN TRUE
    ELSE IF ~ms[i].matched THEN FALSE
    ELSE allOfMatchedFrom(ms, i + 1)

(* mutant: std::any_of in place of std::all_of *)
anyModsMatched(ms) == \E i \in 1..Len(ms) : ms[i].matched

allModsMatched(ms) == allOfMatchedFrom(ms, 1)

(* mutant: every enumerated file is hashed, whatever its name *)
scanPathAll(ms, order) == order

(* BlockedModsDialog::scanPath: the tasks added for one enumeration order *)
scanPath(ms, order) == SelectSeq(order, LAMBDA p : checkValidPath(ms, p))

(* Hasher: the digest of the file at path, or failure *)
computeHash(f, path) == IF isFile(f, path) THEN Hashed(f[path].digest) ELSE Failed

(* ------------------------------ the pool ------------------------------ *)
(* the paths of the tasks of a bag, one after the other *)
RECURSIVE BagPaths(_)
BagPaths(b) ==
    IF BagToSet(b) = {} THEN <<>>
    ELSE LET t == CHOOSE u \in BagToSet(b) : TRUE
         IN <<t.path>> \o BagPaths(b (-) SetToBag({t}))

(* mutant: start queues the tasks that are executing once more *)
startAgain(q, d) == [queue |-> q \o BagPaths(d), running |-> TRUE]

(* ConcurrentTask::start, called with q queued and d executing: the pool runs
   from now on and begins with what is queued; what is executing is left
   alone and is not queued again *)
start(q, d) == [queue |-> q, running |-> TRUE]

(* mutant: every task is queued twice *)
addTasksTwice(q, paths) == q \o paths \o paths

(* ConcurrentTask::addTask for a sequence of paths, in order *)
addTasks(q, paths) == q \o paths

Task(path, res) == [path |-> path, res |-> res]

(* ------------------------------- Init --------------------------------- *)
InitFs == [FilePaths -> {File(h) : h \in Digests} \cup {Absent}]

(* setupWatch *)
setupWatch == {DownloadsFolder, ModsFolder}

(* scanPaths: every watched directory, each in some enumeration order *)
scanPathsQueues(ms, f, ws) ==
    {addTasks(scanPath(ms, o[1]), scanPath(ms, o[2])) :
        o \in UNION {Orders(dirFiles(f, ds[1])) \X Orders(dirFiles(f, ds[2])) : ds \in Orders(ws)}}

Init ==
    /\ mods \in ModLists
    /\ fs \in InitFs
    /\ watched = setupWatch
    /\ pending = {}
    /\ doing = EmptyBag
    /\ queue \in {start(q, doing).queue : q \in scanPathsQueues(mods, fs, watched)}
    /\ running = start(queue, doing).running
    /\ pc = Idle
    /\ hashed = {}
    /\ lastOp = Op("construct", EmptyPath, EmptyString, TRUE)
    /\ tally = [submitted |-> Len(queue), started |-> 0, completed |-> 0]
    /\ rescan = <<>>
    /\ inputs = 0

(* ------------------------------ actions ------------------------------- *)
(* the pool starts the next queued task; the hasher reads the file *)
StartNext ==
    /\ pc = Idle
    /\ running
    /\ queue # <<>>
    /\ BagCardinality(doing) < K
    /\ doing' = doing (+) SetToBag({Task(Head(queue), computeHash(fs, Head(queue)))})
    /\ queue' = Tail(queue)
    /\ lastOp' = Op("startNext", EmptyPath, EmptyString, FALSE)
    /\ tally' = [tally EXCEPT !.started = @ + 1]
    /\ UNCHANGED <<mods, fs, watched, pending, running, pc, hashed, inputs, rescan>>

(* Task::succeeded of a hash task: the lambda connected in addHashTask *)
TaskSucceeded(t) ==
    /\ pc = Idle
    /\ BagIn(t, doing)
    /\ t.res.ok
    /\ LET r == checkMatchHash(mods, t.res.hash, t.path)
       IN /\ mods' = r.mods
          /\ lastOp' = Op("succeeded", t.path, t.res.hash, r.match)
    /\ doing' = doing (-) SetToBag({t})
    /\ hashed' = hashed \cup {<<t.path, t.res.hash>>}
    /\ tally' = [tally EXCEPT !.completed = @ + 1]
    /\ UNCHANGED <<fs, watched, pending, queue, running, pc, inputs, rescan>>

(* mutant: a failure gives up the tasks that wait and the others that run *)
TaskFailedAborts(t) ==
    /\ pc = Idle
    /\ BagIn(t, doing)
    /\ ~t.res.ok
    /\ doing' = EmptyBag
    /\ queue' = <<>>
    /\ lastOp' = Op("failed", t.path, EmptyString, FALSE)
    /\ tally' = [tally EXCEPT !.completed = @ + 1]
    /\ UNCHANGED <<mods, fs, watched, pending, running, pc, hashed, inputs, rescan>>

(* Task::failed of a hash task: logged only *)
TaskFailed(t) ==
    /\ pc = Idle
    /\ BagIn(t, doing)
    /\ ~t.res.ok
    /\ doing' = doing (-) SetToBag({t})
    /\ lastOp' = Op("failed", t.path, EmptyString, FALSE)
    /\ tally' = [tally EXCEPT !.completed = @ + 1]
    /\ UNCHANGED <<mods, fs, watched, pending, queue, running, pc, hashed, inputs, rescan>>

(* the pool has nothing queued and nothing running: all finished *)
PoolFinished ==
    /\ pc = Idle
    /\ running
    /\ queue = <<>>
    /\ doing = EmptyBag
    /\ running' = FALSE
    /\ lastOp' = Op("finished", EmptyPath, EmptyString, FALSE)
    /\ UNCHANGED <<tally, mods, fs, watched, pending, queue, doing, pc, hashed, inputs, rescan>>

DropPaths == FilePaths \cup DirPaths \cup {EmptyPath}

(* mutant: the tasks are added and the pool is not started *)
dropEventNoStart(urls) ==
    /\ pc = Idle
    /\ queue' = addTasks(queue, urls)
    /\ lastOp' = DropOp(urls)
    /\ tally' = [tally EXCEPT !.submitted = @ + Len(urls)]
    /\ rescan' = <<>>
    /\ UNCHANGED <<mods, fs, watched, pending, doing, running, pc, hashed>>

(* BlockedModsDialog::dropEvent: a hash task for every url, then start *)
dropEvent(urls) ==
    /\ pc = Idle
    /\ LET pool == start(addTasks(queue, urls), doing)
       IN queue' = pool.queue /\ running' = pool.running
    /\ lastOp' = DropOp(urls)
    /\ tally' = [tally EXCEPT !.submitted = @ + Len(urls)]
    /\ rescan' = <<>>
    /\ UNCHANGED <<mods, fs, watched, pending, doing, pc, hashed>>

(* a drop of a few urls, each of them an input *)
DropEvent(urls) ==
    /\ inputs < MaxInputs
    /\ inputs + Len(urls) <= MaxInputs
    /\ dropEvent(urls)
    /\ inputs' = IF urls = <<>> THEN inputs + 1 ELSE inputs + Len(urls)

(* BlockedModsDialog::addDownloadFolder, for the directory the user chose *)
AddDownloadFolder(d) ==
    /\ pc = Idle
    /\ inputs < MaxInputs
    /\ watched' = watched \cup {d}
    /\ \E order \in Orders(dirFiles(fs, d)) :
           LET pool == start(addTasks(queue, scanPath(mods, order)), doing)
           IN /\ queue' = pool.queue
              /\ running' = pool.running
              /\ tally' = [tally EXCEPT !.submitted = @ + Len(scanPath(mods, order))]
    /\ lastOp' = Op("addFolder", <<d>>, EmptyString, FALSE)
    /\ rescan' = IF d \in watched /\ pending = {} /\ queue = <<>> /\ doing = EmptyBag
                  THEN <<mods>> ELSE <<>>
    /\ inputs' = inputs + 1
    /\ UNCHANGED <<mods, fs, pending, doing, pc, hashed>>

(* mutant: the directory is scanned before the matches are validated *)
directoryChangedScanFirst == <<"scan", "validate">>

(* BlockedModsDialog::directoryChanged: the calls it makes, in order *)
directoryChanged == <<"validate", "scan">>

(* one call of the directoryChanged handler for directory d *)
HandlerCall(call, d) ==
    IF call = "validate"
    THEN LET r == validateMatchedMods(mods, fs)
         IN /\ mods' = r.mods
            /\ lastOp' = Op("validate", <<d>>, EmptyString, r.changed)
            /\ UNCHANGED <<queue, running, tally>>
    ELSE /\ \E order \in Orders(dirFiles(fs, d)) :
                LET pool == start(addTasks(queue, scanPath(mods, order)), doing)
                IN /\ queue' = pool.queue
                   /\ running' = pool.running
                   /\ tally' = [tally EXCEPT !.submitted = @ + Len(scanPath(mods, order))]
         /\ lastOp' = Op("scan", <<d>>, EmptyString, FALSE)
         /\ UNCHANGED mods

(* the directoryChanged signal for d is delivered: first call of the handler *)
DirectoryChanged(d) ==
    /\ pc = Idle
    /\ d \in pending
    /\ pending' = pending \ {d}
    /\ HandlerCall(directoryChanged[1], d)
    /\ pc' = <<d>>
    /\ rescan' = <<>>
    /\ UNCHANGED <<fs, watched, doing, hashed, inputs>>

(* second call of the handler *)
DirectoryChangedReturn ==
    /\ pc # Idle
    /\ HandlerCall(directoryChanged[2], pc[1])
    /\ pc' = Idle
    /\ rescan' = <<>>
    /\ UNCHANGED <<fs, watched, pending, doing, hashed, inputs>>

(* QFileSystemWatcher: a change in a watched directory emits directoryChanged *)
notify(p) == IF p[1] \in watched THEN pending \cup {p[1]} ELSE pending

(* the environment writes a file (creates it or replaces its content) *)
FsWrite(p, h) ==
    /\ inputs < MaxInputs
    /\ fs[p] \notin {IsDir, File(h)}
    /\ fs' = [fs EXCEPT ![p] = File(h)]
    /\ pending' = notify(p)
    /\ lastOp' = Op("fs", EmptyPath, EmptyString, FALSE)
    /\ rescan' = <<>>
    /\ inputs' = inputs + 1
    /\ UNCHANGED <<mods, watched, queue, doing, running, pc, hashed, tally>>

(* the environment removes a file or a directory *)
FsDelete(p) ==
    /\ inputs < MaxInputs
    /\ fs[p] # Absent
    /\ fs' = [fs EXCEPT ![p] = Absent]
    /\ pending' = notify(p)
    /\ lastOp' = Op("fs", EmptyPath, EmptyString, FALSE)
    /\ rescan' = <<>>
    /\ inputs' = inputs + 1
    /\ UNCHANGED <<mods, watched, queue, doing, running, pc, hashed, tally>>

(* the environment puts a directory at p, in place of a file if one was there *)
FsMkdir(p) ==
    /\ inputs < MaxInputs
    /\ fs[p] # IsDir
    /\ fs' = [fs EXCEPT ![p] = IsDir]
    /\ pending' = notify(p)
    /\ lastOp' = Op("fs", EmptyPath, EmptyString, FALSE)
    /\ rescan' = <<>>
    /\ inputs' = inputs + 1
    /\ UNCHANGED <<mods, watched, queue, doing, running, pc, hashed, tally>>

Urls == UNION {[1..k -> DropPaths] : k \in 0..MaxInputs}

Next ==
    \/ StartNext
    \/ \E t \in BagToSet(doing) : TaskSucceeded(t)
    \/ \E t \in BagToSet(doing) : TaskFailed(t)
    \/ PoolFinished
    \/ \E urls \in Urls : DropEvent(urls)
    \/ \E d \in Dirs : AddDownloadFolder(d)
    \/ \E d \in Dirs : DirectoryChanged(d)
    \/ DirectoryChangedReturn
    \/ \E p \in FilePaths, h \in Digests : FsWrite(p, h)
    \/ \E p \in FilePaths : FsDelete(p)
    \/ \E p \in FilePaths : FsMkdir(p)

Spec == Init /\ [][Next]_vars

(* The event loop runs every callback that is ready: the pool starts queued
   tasks, started tasks signal their end, a handler that began returns.  The
   user and the file system owe nothing. *)
FairSpec ==
    /\ Spec
    /\ WF_vars(StartNext)
    /\ WF_vars(\E t \in BagToSet(doing) : TaskSucceeded(t))
    /\ WF_vars(\E t \in BagToSet(doing) : TaskFailed(t))
    /\ WF_vars(DirectoryChangedReturn)

(* ---------------- more dropped files than the pool runs at once -------- *)
(* the same path dropped K + 2 times in one drop *)
BurstUrls == {[i \in 1..(K + 2) |-> p] : p \in DropPaths}

(* a drop of many urls at once: the only input of its run *)
DropBurst(urls) ==
    /\ inputs = 0
    /\ dropEvent(urls)
    /\ inputs' = MaxInputs

NextBurst ==
    \/ Next
    \/ \E urls \in BurstUrls : DropBurst(urls)

SpecBurst == Init /\ [][NextBurst]_vars

(* ------------------------- vocabulary of the claims -------------------- *)
(* two strings are the same up to the case of their ASCII letters *)
EqualIgnoringCase(a, b) ==
    /\ Len(a) = Len(b)
    /\ \A i \in 1..Len(a) :
          \/ a[i] = b[i]
          \/ a[i] \in 65..90 /\ b[i] = a[i] + 32
          \/ b[i] \in 65..90 /\ a[i] = b[i] + 32

(* path denotes an existing regular file *)
RegularFile(path) == path \in DOMAIN fs /\ fs[path].kind = "file"

Entries == 1..Len(mods)

(* the unmatched entries whose expected hash is h, case ignored *)
Candidates(h) == {i \in Entries : ~mods[i].matched /\ EqualIgnoringCase(mods[i].hash, h)}

Least(S) == CHOOSE k \in S : \A j \in S : k <= j

(* C1: a confirm (a succeeded hash task, checkMatchHash(hash, path)) matches
   the first unmatched entry, in insertion order, whose expected hash equals
   hash case-insensitively, setting its local path to path and changing
   nothing else; when there is no such entry, no entry changes. *)
C1_ConfirmFirstUnmatched ==
    [][lastOp'.op = "succeeded" =>
          LET S == Candidates(lastOp'.hash)
          IN IF S = {} THEN mods' = mods
             ELSE mods' = [mods EXCEPT ![Least(S)] =
                              [@ EXCEPT !.matched = TRUE, !.localPath = lastOp'.path]]]_vars

(* a confirm matched an entry whose hash differs in case from the digest,
   and left a later entry with the same hash unmatched *)
C1_Witness ==
    /\ lastOp.op = "succeeded"
    /\ \E i, j \in Entries :
          /\ i < j
          /\ mods[i].matched /\ mods[i].localPath = lastOp.path
          /\ mods[i].hash # lastOp.hash /\ EqualIgnoringCase(mods[i].hash, lastOp.hash)
          /\ ~mods[j].matched /\ mods[j].hash = mods[i].hash

(* C2: every matched entry's local path is a path whose hash task succeeded
   with a digest equal, case ignored, to the entry's expected hash; a file
   with the right name and another digest never makes an entry matched. *)
C2_MatchedOnlyByHash ==
    \A i \in Entries :
        mods[i].matched =>
            \E r \in hashed : r[1] = mods[i].localPath /\ EqualIgnoringCase(r[2], mods[i].hash)

(* a file named like an entry was hashed to another digest than the entry
   expects, and the entry is unmatched; another entry is matched *)
C2_Witness ==
    /\ \E i \in Entries :
          /\ ~mods[i].matched
          /\ \E r \in hashed : /\ EqualIgnoringCase(fileName(r[1]), mods[i].name)
                               /\ ~EqualIgnoringCase(r[2], mods[i].hash)
    /\ \E i \in Entries : mods[i].matched

(* C3: an entry is matched exactly when its local path is not empty. *)
C3_MatchedIffLocalPath ==
    \A i \in Entries : mods[i].matched <=> mods[i].localPath # EmptyPath

(* a revalidation has reset an entry that a confirm had matched: its file is
   no regular file any more *)
C3_Witness ==
    /\ lastOp.op \in {"validate", "scan"}
    /\ \E r \in hashed : \E i \in Entries :
          /\ EqualIgnoringCase(r[2], mods[i].hash)
          /\ ~mods[i].matched
          /\ ~RegularFile(r[1])

(* C4: validateMatchedMods resets (matched false, local path empty) every
   matched entry whose local path is not an existing regular file, and
   leaves every other entry as it was. *)
C4_Revalidate ==
    [][lastOp'.op = "validate" =>
          /\ Len(mods') = Len(mods)
          /\ \A i \in Entries :
                IF mods[i].matched /\ ~RegularFile(mods[i].localPath)
                THEN mods'[i] = [mods[i] EXCEPT !.matched = FALSE, !.localPath = EmptyPath]
                ELSE mods'[i] = mods[i]]_vars

(* a revalidation reset an entry whose file had been replaced by a directory *)
C4_Witness ==
    /\ lastOp.op = "validate"
    /\ lastOp.updated
    /\ \E r \in hashed : fs[r[1]] = IsDir

(* C5: in the directoryChanged handler the revalidation comes first and
   submits no hash task; the scan of the changed directory comes after it,
   so that an entry matched to a path that is no regular file when the event
   is handled is unmatched with an empty local path before the scan. *)
C5_RevalidateBeforeRescan ==
    [][/\ lastOp'.op = "scan" => pc # Idle /\ pc' = Idle
       /\ lastOp'.op = "validate" =>
             /\ pc = Idle /\ pc' = lastOp'.path
             /\ queue' = queue /\ doing' = doing
             /\ \A i \in Entries :
                   mods[i].matched /\ ~RegularFile(mods[i].localPath) =>
                       ~mods'[i].matched /\ mods'[i].localPath = EmptyPath]_vars

(* the rescan of an event has just run, after the revalidation reset the
   only entry, whose file is gone *)
C5_Witness ==
    /\ lastOp.op = "scan"
    /\ Len(mods) = 1
    /\ ~mods[1].matched /\ mods[1].localPath = EmptyPath
    /\ \E r \in hashed : EqualIgnoringCase(r[2], mods[1].hash) /\ fs[r[1]] = Absent

(* some entry is named like the file at path, case ignored *)
NameRelevant(path) == \E i \in Entries : EqualIgnoringCase(mods[i].name, fileName(path))

PoolEmpty == queue = <<>> /\ doing = EmptyBag

(* C6: scanning a directory a second time, with the directory unchanged and
   the hash tasks of the first scan completed, leaves every entry's matched
   flag and local path, once the second scan's tasks have completed, as they
   were after the first scan. *)
C6_RescanIdempotent ==
    rescan # <<>> /\ PoolEmpty => mods = rescan[1]

(* C7: no two distinct matched entries have the same local path. *)
C7_OneEntryPerPath ==
    \A i, j \in Entries :
        mods[i].matched /\ mods[j].matched /\ mods[i].localPath = mods[j].localPath => i = j

(* C8: a confirm leaves every entry that was matched as it was and changes at
   most one entry; no step but a revalidation changes a matched entry, so
   the local path stays that of the first file confirmed for the entry. *)
C8_FirstWriterWins ==
    [][/\ lastOp'.op # "validate" => \A i \in Entries : mods[i].matched => mods'[i] = mods[i]
       /\ lastOp'.op = "succeeded" =>
             /\ Len(mods') = Len(mods)
             /\ Cardinality({i \in Entries : mods'[i] # mods[i]}) <= 1]_vars

(* a second file with the digest an already matched entry expects has been
   confirmed, and the entry kept the path of the first *)
C8_Witness ==
    /\ lastOp.op = "succeeded"
    /\ \E i \in Entries :
          /\ mods[i].matched
          /\ EqualIgnoringCase(mods[i].hash, lastOp.hash)
          /\ mods[i].localPath # lastOp.path

(* the tasks a step appended to the queue *)
Added(q, qq) == SubSeq(qq, Len(q) + 1, Len(qq))

IsExtension(q, qq) == Len(qq) >= Len(q) /\ SubSeq(qq, 1, Len(q)) = q

(* C9: a directory scan (at construction, on add-folder, on a directory
   change) submits no file whose name equals no entry's name, case ignored;
   a drop submits every dropped path, whatever its name. *)
C9_NamePrefilter ==
    /\ \A k \in 1..Len(queue) : NameRelevant(queue[k])
    /\ [][/\ lastOp'.op \in {"scan", "addFolder"} =>
                /\ IsExtension(queue, queue')
                /\ \A k \in 1..Len(Added(queue, queue')) :
                      /\ NameRelevant(Added(queue, queue')[k])
                      /\ <<Added(queue, queue')[k][1]>> = lastOp'.path
          /\ lastOp'.op = "drop" => queue' = queue \o lastOp'.urls]_vars

(* a file of the downloads folder that the scan at construction did not
   submit, its name being no entry's, has been dropped and is queued *)
C9_Witness ==
    /\ lastOp.op = "drop"
    /\ lastOp.urls = <<<<DownloadsFolder, Namefo>>>>
    /\ inputs = 1
    /\ RegularFile(<<DownloadsFolder, Namefo>>)
    /\ ~NameRelevant(<<DownloadsFolder, Namefo>>)
    /\ mods # <<>>
    /\ queue = lastOp.urls
    /\ hashed = {}

(* every hash task has completed and no directory change is outstanding *)
ScanPassDone ==
    /\ lastOp.op \in {"succeeded", "failed"}
    /\ PoolEmpty
    /\ pending = {}
    /\ pc = Idle

(* C10, as claimed: once the hash tasks have completed, every entry whose
   expected hash is the digest of a regular file of a scanned directory, the
   file being named like some entry, is matched with a local path. *)
C10_EventualMatch ==
    ScanPassDone =>
        \A p \in FilePaths :
            p[1] \in watched /\ RegularFile(p) /\ NameRelevant(p) =>
                \A i \in Entries :
                    EqualIgnoringCase(mods[i].hash, fs[p].digest) =>
                        mods[i].matched /\ mods[i].localPath # EmptyPath

(* C10, amended: a scan submits a hash task for every regular file of the
   directory that is named like some entry; when such a task succeeds with
   the digest entry E expects, E is matched with a local path right after
   the confirm unless an earlier entry expecting the same hash was unmatched
   (that entry is matched instead). *)
C10_MatchUnlessEarlierEntry ==
    /\ \A p \in FilePaths :
          p[1] \in watched /\ RegularFile(p) /\ NameRelevant(p) =>
              \E k \in 1..Len(queue) : queue[k] = p
    /\ [][/\ lastOp'.op \in {"scan", "addFolder"} =>
                \A p \in FilePaths :
                    <<p[1]>> = lastOp'.path /\ RegularFile(p) /\ NameRelevant(p) =>
                        \E k \in 1..Len(Added(queue, queue')) : Added(queue, queue')[k] = p
          /\ lastOp'.op = "succeeded" =>
                \A e \in Entries :
                    EqualIgnoringCase(mods[e].hash, lastOp'.hash) =>
                        \/ mods'[e].matched /\ mods'[e].localPath # EmptyPath
                        \/ \E j \in Candidates(lastOp'.hash) : j < e]_vars

(* the scanned file's digest is what both entries expect: after the confirm
   the first is matched to the file and the second is still unmatched *)
C10_Witness ==
    /\ lastOp.op = "succeeded"
    /\ lastOp.path[1] \in setupWatch
    /\ NameRelevant(lastOp.path)
    /\ Len(mods) = 2
    /\ mods[1].matched /\ mods[1].localPath = lastOp.path
    /\ ~mods[2].matched
    /\ EqualIgnoringCase(mods[2].hash, lastOp.hash)
    /\ inputs = 0

(* C11: at most K = 10 hash tasks are executing at any time, however many
   have been submitted; the others wait in the queue. *)
C11_BoundedConcurrency ==
    BagCardinality(doing) <= 10

(* ten tasks are executing and others are waiting *)
C11_Witness ==
    /\ BagCardinality(doing) = 10
    /\ queue # <<>>
    /\ tally.submitted > 10

(* C12: every hash task the pool accepted, whenever it was added, is
   eventually completed, with success or failure: whenever submitted tasks
   are outstanding, a state follows where every submitted task has
   completed. *)
C12_EventualCompletion ==
    (tally.completed < tally.submitted) ~> (tally.completed = tally.submitted)

(* the pool finished once more after a task added after construction
   completed *)
C12_Witness ==
    /\ lastOp.op = "finished"
    /\ inputs >= 1
    /\ tally.submitted >= 2
    /\ tally.completed = tally.submitted

(* C13: however often start is called, also while tasks execute or nothing
   is queued, no submitted task executes twice and each produces one
   completion.  In every state each submitted task is waiting, executing or
   completed, and each started task is executing or completed.  A handler
   that calls start adds to the queue the tasks it submitted and nothing
   else, and leaves the executing tasks alone; a task leaves the queue only
   by being started and stops executing only by its one completion; no other
   step touches the pool's tasks. *)
C13_ExactlyOnce ==
    /\ [](/\ tally.submitted = Len(queue) + BagCardinality(doing) + tally.completed
          /\ tally.started = BagCardinality(doing) + tally.completed)
    /\ [][/\ lastOp'.op \in {"drop", "scan", "addFolder"} =>
                /\ doing' = doing
                /\ IsExtension(queue, queue')
                /\ Len(queue') - Len(queue) = tally'.submitted - tally.submitted
                /\ tally'.started = tally.started
                /\ tally'.completed = tally.completed
          /\ lastOp'.op = "drop" => Added(queue, queue') = lastOp'.urls
          /\ lastOp'.op \in {"scan", "addFolder"} =>
                \A k, l \in 1..Len(Added(queue, queue')) :
                    /\ Added(queue, queue')[k] \in dirFiles(fs, lastOp'.path[1])
                    /\ Added(queue, queue')[k] = Added(queue, queue')[l] => k = l
          /\ lastOp'.op = "startNext" =>
                /\ queue # <<>> /\ queue' = Tail(queue)
                /\ \E t \in BagToSet(doing') :
                      t.path = Head(queue) /\ doing' = doing (+) SetToBag({t})
                /\ tally' = [tally EXCEPT !.started = @ + 1]
          /\ lastOp'.op \in {"succeeded", "failed"} =>
                /\ queue' = queue
                /\ \E t \in BagToSet(doing) :
                      t.path = lastOp'.path /\ doing' = doing (-) SetToBag({t})
                /\ tally' = [tally EXCEPT !.completed = @ + 1]
          /\ lastOp'.op \in {"validate", "finished", "fs"} =>
                queue' = queue /\ doing' = doing /\ tally' = tally]_vars

(* start was called by a drop of some urls while a task of an earlier
   submission was executing, and that task is still executing, once *)
C13_Witness ==
    /\ lastOp.op = "drop"
    /\ lastOp.urls # <<>>
    /\ running
    /\ BagCardinality(doing) = 1
    /\ tally.started = 1
    /\ Len(queue) = Len(lastOp.urls)

(* C14: a hash task that fails changes no entry and fires no notification,
   and it takes nothing but itself out of the pool: the tasks that wait still
   wait, the others that execute still execute, and the pool keeps running. *)
C14_FailureIsolation ==
    [][lastOp'.op = "failed" =>
          /\ mods' = mods
          /\ ~lastOp'.updated
          /\ queue' = queue
          /\ running' = running
          /\ \E t \in BagToSet(doing) :
                /\ ~t.res.ok
                /\ t.path = lastOp'.path
                /\ doing' = doing (-) SetToBag({t})]_vars

(* a task failed while another one, whose digest an unmatched entry expects,
   was executing *)
C14_Witness ==
    /\ lastOp.op = "failed"
    /\ \E t \in BagToSet(doing) :
          /\ t.res.ok
          /\ \E i \in Entries : ~mods[i].matched /\ EqualIgnoringCase(mods[i].hash, t.res.hash)

(* C15: update is called in the handler itself, so before any other step, by
   a confirmation exactly when it matched an entry and by a revalidation
   exactly when it reset an entry; no other step changes an entry. *)
C15_Notification ==
    [][/\ lastOp'.op = "succeeded" =>
             (lastOp'.updated <=> \E i \in Entries : ~mods[i].matched /\ mods'[i].matched)
       /\ lastOp'.op = "validate" =>
             (lastOp'.updated <=> \E i \in Entries : mods[i].matched /\ ~mods'[i].matched)
       /\ lastOp'.op \notin {"succeeded", "validate"} => mods' = mods]_vars

(* a revalidation found a matched entry intact, changed nothing and did not
   notify *)
C15_Witness ==
    /\ lastOp.op = "validate"
    /\ ~lastOp.updated
    /\ \E i \in Entries : mods[i].matched /\ RegularFile(mods[i].localPath)

(* C16: in every state allModsMatched is true exactly when every entry is
   matched, and so it is true when there is no entry. *)
C16_AllMatched ==
    /\ allModsMatched(mods) <=> \A i \in Entries : mods[i].matched
    /\ mods = <<>> => allModsMatched(mods)

(* two entries, both matched, each by a file of its own *)
C16_Witness ==
    /\ Len(mods) = 2
    /\ mods[1].matched /\ mods[2].matched
    /\ mods[1].localPath # mods[2].localPath
    /\ allModsMatched(mods)

(* C17: a directory scan (in directoryChanged or addDownloadFolder) submits
   no hash task for a file whose path is the local path of a matched entry. *)
C17_ScanSkipsMatched ==
    [][lastOp'.op \in {"scan", "addFolder"} =>
          \A k \in (Len(queue) + 1)..Len(queue') :
              ~\E i \in Entries : mods[i].matched /\ mods[i].localPath = queue'[k]]_vars

(* C18: once every directoryChanged event has been handled and every hash
   task has completed, no entry is matched to a path, in a directory watched
   from the start, at which the file has been deleted. *)
C18_NoStaleMatch ==
    PoolEmpty /\ pending = {} /\ pc = Idle =>
        \A i \in Entries :
            mods[i].matched /\ mods[i].localPath[1] \in setupWatch =>
                fs[mods[i].localPath] # Absent

(* the hash tasks that are executing and will succeed, as a bag *)
OkDoing ==
    LET S == {t \in BagToSet(doing) : t.res.ok}
    IN [t \in S |-> doing[t]]

(* every order in which the tasks of a bag can complete *)
RECURSIVE BagOrders(_)
BagOrders(b) ==
    IF BagToSet(b) = {} THEN {<<>>}
    ELSE UNION {{<<t>> \o o : o \in BagOrders(b (-) SetToBag({t}))} : t \in BagToSet(b)}

(* the entries after the completions ts have been confirmed in that order *)
RECURSIVE confirmAll(_, _)
confirmAll(ms, ts) ==
    IF ts = <<>> THEN ms
    ELSE confirmAll(checkMatchHash(ms, Head(ts).res.hash, Head(ts).path).mods, Tail(ts))

(* how many results in the bag carry a digest equal to h, case ignored *)
ResultsWith(b, h) ==
    BagCardinality([t \in {u \in BagToSet(b) : EqualIgnoringCase(u.res.hash, h)} |-> b[t]])

(* the place of entry i among the unmatched entries expecting its hash *)
UnmatchedRank(i) ==
    Cardinality({j \in 1..i : ~mods[j].matched /\ EqualIgnoringCase(mods[j].hash, mods[i].hash)})

(* C19: for the entries as they are and the successful results that are
   outstanding, every order of confirming them gives every entry the same
   matched flag: an unmatched entry becomes matched exactly when its place
   among the unmatched entries expecting its hash is at most the number of
   results with that hash. *)
C19_OrderIndependence ==
    pc = Idle =>
        \A o \in BagOrders(OkDoing) :
            LET after == confirmAll(mods, o)
            IN /\ Len(after) = Len(mods)
               /\ \A i \in Entries :
                     after[i].matched <=>
                         \/ mods[i].matched
                         \/ UnmatchedRank(i) <= ResultsWith(OkDoing, mods[i].hash)

(* two results with the same digest for two files are outstanding, two
   unmatched entries expect it, and the two orders give the entries different
   local paths *)
C19_Witness ==
    /\ pc = Idle
    /\ Len(mods) = 2
    /\ ~mods[1].matched /\ ~mods[2].matched
    /\ \E o1, o2 \in BagOrders(OkDoing) :
          /\ Len(o1) = 2
          /\ confirmAll(mods, o1) # confirmAll(mods, o2)
          /\ confirmAll(mods, o1)[2].matched
          /\ confirmAll(mods, o2)[2].matched

====
